---- MODULE Spec2Model ----
(***************************************************************************)
(* Model of the fuel calculator page (src/pages/index.tsx): the form, the  *)
(* per-fuel settings, the refuel history, their persistence in             *)
(* localStorage and the JSON import/export.                                *)
(*                                                                         *)
(* Numbers are JavaScript numbers modelled as extended rationals: a record *)
(* [n, d] in lowest terms with d > 0 is the finite value n/d; d = 0 is a   *)
(* non-finite value: 1/0 is Infinity, -1/0 is -Infinity and 0/0 is NaN.    *)
(* Binary rounding of doubles is not modelled: arithmetic is exact.        *)
(* Text (the value of an input field) is a sequence of one-character       *)
(* strings.                                                                *)
(***************************************************************************)
EXTENDS Integers, Sequences, FiniteSets, TLC

-----------------------------------------------------------------------------
(* JavaScript numbers *)

Abs(i) == IF i < 0 THEN -i ELSE i

Sign(i) == IF i < 0 THEN -1 ELSE IF i > 0 THEN 1 ELSE 0

RECURSIVE Gcd(_, _)
Gcd(a, b) == IF b = 0 THEN a ELSE Gcd(b, a % b)

\* The number n/d in canonical form (lowest terms, d >= 0).
Num(n, d) ==
    IF d = 0 THEN [n |-> Sign(n), d |-> 0]
    ELSE LET s == IF d < 0 THEN -1 ELSE 1
             g == Gcd(Abs(n), Abs(d))
         IN  [n |-> (s * n) \div g, d |-> (s * d) \div g]

NumOf(i) == [n |-> i, d |-> 1]

Zero == NumOf(0)

NaN == [n |-> 0, d |-> 0]

Infinity == [n |-> 1, d |-> 0]

IsNaN(x) == x.d = 0 /\ x.n = 0

\* Number.isFinite
IsFinite(x) == x.d # 0

\* x < y as JavaScript compares numbers: false when either is NaN.
Lt(x, y) ==
    IF IsNaN(x) \/ IsNaN(y) THEN FALSE
    ELSE IF x.d # 0 /\ y.d # 0 THEN x.n * y.d < y.n * x.d
    ELSE IF x.d = 0 /\ y.d = 0 THEN x.n < y.n
    ELSE IF x.d = 0 THEN x.n < 0
    ELSE y.n > 0

Gt(x, y) == Lt(y, x)

\* x === y on numbers: false when either is NaN.
NumEq(x, y) == ~IsNaN(x) /\ ~IsNaN(y) /\ x = y

Le(x, y) == Lt(x, y) \/ NumEq(x, y)

\* x + y: NaN with a NaN operand or for Infinity + -Infinity.
Add(x, y) ==
    IF IsNaN(x) \/ IsNaN(y) THEN NaN
    ELSE IF x.d = 0 /\ y.d = 0 THEN Num(x.n + y.n, 0)
    ELSE Num(x.n * y.d + y.n * x.d, x.d * y.d)

Mul(x, y) == Num(x.n * y.n, x.d * y.d)

\* x / y: a division by zero yields Infinity, -Infinity or NaN, never an error.
Div(x, y) ==
    IF y.n < 0 THEN Num(-(x.n * y.d), x.d * (-y.n))
    ELSE Num(x.n * y.d, x.d * y.n)

RECURSIVE Pow10(_)
Pow10(k) == IF k = 0 THEN 1 ELSE 10 * Pow10(k - 1)

\* |x| * 10^digits rounded to the nearest integer, halves away from zero.
RoundScaled(x, digits) ==
    (2 * Abs(x.n) * Pow10(digits) + x.d) \div (2 * x.d)

\* +x.toFixed(digits): x rounded to `digits` decimals, as a number again.
\* A non-finite x prints as "Infinity" or "NaN" and reads back unchanged.
ToFixedNum(x, digits) ==
    IF ~IsFinite(x) THEN x
    ELSE Num(Sign(x.n) * RoundScaled(x, digits), Pow10(digits))

-----------------------------------------------------------------------------
(* Text: the value of an input field *)

Digits == {"0", "1", "2", "3", "4", "5", "6", "7", "8", "9"}

DigitVal(c) ==
    CASE c = "0" -> 0 [] c = "1" -> 1 [] c = "2" -> 2 [] c = "3" -> 3
      [] c = "4" -> 4 [] c = "5" -> 5 [] c = "6" -> 6 [] c = "7" -> 7
      [] c = "8" -> 8 [] c = "9" -> 9

DigitChar(i) ==
    CASE i = 0 -> "0" [] i = 1 -> "1" [] i = 2 -> "2" [] i = 3 -> "3"
      [] i = 4 -> "4" [] i = 5 -> "5" [] i = 6 -> "6" [] i = 7 -> "7"
      [] i = 8 -> "8" [] i = 9 -> "9"

Empty == << >>

\* String.prototype.replace(from, to) with a string pattern: the first
\* occurrence only.
RECURSIVE ReplaceFirst(_, _, _)
ReplaceFirst(s, from, to) ==
    IF s = << >> THEN << >>
    ELSE IF Head(s) = from THEN <<to>> \o Tail(s)
    ELSE <<Head(s)>> \o ReplaceFirst(Tail(s), from, to)

\* The number of consecutive digits of s from position i on.
RECURSIVE DigitRun(_, _)
DigitRun(s, i) ==
    IF i <= Len(s) /\ s[i] \in Digits THEN 1 + DigitRun(s, i + 1) ELSE 0

\* The value of the k digits of s from position i on.
RECURSIVE DigitsValue(_, _, _)
DigitsValue(s, i, k) ==
    IF k = 0 THEN 0
    ELSE 10 * DigitsValue(s, i, k - 1) + DigitVal(s[i + k - 1])

\* parseFloat on text without white space and without an exponent part: an
\* optional sign, then "Infinity" or digits, an optional point and digits;
\* parsing stops at the first character that cannot continue the number, and
\* text that starts with no number is NaN.
parseFloat(s) ==
    LET signed == Len(s) >= 1 /\ s[1] \in {"-", "+"}
        i0 == IF signed THEN 2 ELSE 1
        sign == IF signed /\ s[1] = "-" THEN -1 ELSE 1
        il == DigitRun(s, i0)
        hasDot == i0 + il <= Len(s) /\ s[i0 + il] = "."
        fl == IF hasDot THEN DigitRun(s, i0 + il + 1) ELSE 0
        mag == DigitsValue(s, i0, il) * Pow10(fl) + DigitsValue(s, i0 + il + 1, fl)
    IN  IF /\ Len(s) >= i0 + 7
           /\ SubSeq(s, i0, i0 + 7) = <<"I", "n", "f", "i", "n", "i", "t", "y">>
        THEN Num(sign, 0)
        ELSE IF il + fl = 0 THEN NaN
        ELSE Num(sign * mag, Pow10(fl))

\* numeric without its test of the result.
numericUnchecked(s) == parseFloat(ReplaceFirst(s, ",", "."))

\* numeric applied to text: comma or point as the decimal separator, and 0
\* for anything that does not parse to a finite number.
numeric(s) ==
    LET n == parseFloat(ReplaceFirst(s, ",", "."))
    IN  IF IsFinite(n) THEN n ELSE Zero

\* The decimal digits of a natural number.
RECURSIVE NatText(_)
NatText(i) ==
    IF i < 10 THEN <<DigitChar(i)>> ELSE NatText(i \div 10) \o <<DigitChar(i % 10)>>

\* The last k decimal digits of i, zero padded.
RECURSIVE FracText(_, _)
FracText(i, k) ==
    IF k = 0 THEN << >> ELSE FracText(i \div 10, k - 1) \o <<DigitChar(i % 10)>>

\* toFixed cutting the further decimals off.
toFixedTruncating(x, digits) ==
    LET r == (Abs(x.n) * Pow10(digits)) \div x.d
    IN  (IF x.n < 0 THEN <<"-">> ELSE << >>)
          \o NatText(r \div Pow10(digits)) \o <<".">> \o FracText(r % Pow10(digits), digits)

\* Number.prototype.toFixed(digits) of a finite number, digits >= 1.
toFixed(x, digits) ==
    LET r == RoundScaled(x, digits)
    IN  (IF x.n < 0 THEN <<"-">> ELSE << >>)
          \o NatText(r \div Pow10(digits)) \o <<".">> \o FracText(r % Pow10(digits), digits)

\* fmtNum: a fixed number of decimals with a comma; 0 for a value that is
\* not a finite number.
fmtNum(num, digits) ==
    ReplaceFirst(toFixed(IF IsFinite(num) THEN num ELSE Zero, digits), ".", ",")

-----------------------------------------------------------------------------
(* Data: fuel types, settings, refuel records, JSON text *)

\* type FuelType
FuelType == {"Etanol", "Gasolina", "Diesel", "GNV"}

STORAGE_KEY_HISTORY == "fuel_history_v2"

STORAGE_KEY_SETTINGS == "fuel_settings_v2"

FuelSettings(price, consumption, tankSize) ==
    [price |-> price, consumption |-> consumption, tankSize |-> tankSize]

DEFAULT_SETTINGS ==
    [f \in FuelType |->
        CASE f = "Etanol"   -> FuelSettings(Num(409, 100), Num(75, 10), NumOf(50))
          [] f = "Gasolina" -> FuelSettings(Num(589, 100), NumOf(11), NumOf(50))
          [] f = "Diesel"   -> FuelSettings(Num(609, 100), NumOf(14), NumOf(70))
          [] f = "GNV"      -> FuelSettings(Num(499, 100), NumOf(13), NumOf(15))]

\* The JavaScript value null, and a property an object does not have.
Null == [null |-> TRUE]

Undefined == [undefined |-> TRUE]

IsNumber(v) == "d" \in DOMAIN v

\* Truthiness of a value that is a number, null or undefined.
TruthyNum(v) == IsNumber(v) /\ ~IsNaN(v) /\ v # Zero

\* Truthiness of a value that is a string or, as "", a missing string.
TruthyStr(v) == v # ""

\* A number as JSON.stringify writes it and JSON.parse reads it back: a
\* non-finite number becomes null.
JsonNum(v) == IF IsNumber(v) /\ IsFinite(v) THEN v ELSE IF v = Undefined THEN Undefined ELSE Null

JsonRefuel(r) ==
    [r EXCEPT !.amountBRL = JsonNum(@), !.liters = JsonNum(@), !.km = JsonNum(@),
              !.pricePerLiter = JsonNum(@)]

JsonFuelSettings(fs) == [k \in DOMAIN fs |-> JsonNum(fs[k])]

\* The text JSON.stringify gives for a history list, held as the JSON value it
\* denotes.
StringifyHistory(h) ==
    [kind |-> "json", array |-> TRUE, value |-> [i \in 1..Len(h) |-> JsonRefuel(h[i])]]

StringifySettings(st) ==
    [kind |-> "json", array |-> FALSE,
     value |-> [f \in DOMAIN st |-> JsonFuelSettings(st[f])]]

\* Text that JSON.parse rejects, and a key that localStorage does not hold.
Malformed == [kind |-> "malformed"]

Absent == [kind |-> "absent"]

-----------------------------------------------------------------------------
(* State of the page component and of its environment *)

VARIABLES
    mounted,              \* whether the mount effects have run
    storage,              \* localStorage: key -> text or Absent
    currentFuel,
    amountBRLInput, litersInput, kmRodadosInput,
    history,              \* useLocalStorage(STORAGE_KEY_HISTORY, [])
    allSettings,          \* useLocalStorage(STORAGE_KEY_SETTINGS, DEFAULT_SETTINGS)
    isSettingsModalOpen,
    priceInput, consumptionInput, tankSizeInput,
    activeField,          \* "amount", "liters" or "null"
    simulacaoCommuteInput,
    pricePerLiter,        \* the price state of the first version of the page
    readers,              \* FileReaders whose read has not completed yet
    now,                  \* the last reading of the clock
    events,               \* the number of events handled so far
    last,                 \* the handler that ran last, its inputs and dialogs
    conversion            \* a call of fmtNum or numeric on its own: argument, result

vars ==
    <<mounted, storage, currentFuel, amountBRLInput, litersInput, kmRodadosInput,
      history, allSettings, isSettingsModalOpen, priceInput, consumptionInput,
      tankSizeInput, activeField, simulacaoCommuteInput, pricePerLiter, readers,
      now, events, last, conversion>>

\* The variables of the page.
pageVars ==
    <<mounted, storage, currentFuel, amountBRLInput, litersInput, kmRodadosInput,
      history, allSettings, isSettingsModalOpen, priceInput, consumptionInput,
      tankSizeInput, activeField, simulacaoCommuteInput, pricePerLiter, readers,
      now, events, last>>

\* No conversion is called on its own.
NoConversion ==
    [phase |-> "none", from |-> "none", num |-> Zero, text |-> Empty, result |-> Zero]

\* The values one render of the component sees, with the storage beside them.
Render ==
    [storage |-> storage, currentFuel |-> currentFuel,
     amountBRLInput |-> amountBRLInput, litersInput |-> litersInput,
     kmRodadosInput |-> kmRodadosInput, history |-> history,
     allSettings |-> allSettings, priceInput |-> priceInput,
     consumptionInput |-> consumptionInput, tankSizeInput |-> tankSizeInput,
     activeField |-> activeField,
     simulacaoCommuteInput |-> simulacaoCommuteInput]

\* { ...a, ...b } on objects
Spread(a, b) ==
    [k \in (DOMAIN a) \cup (DOMAIN b) |-> IF k \in DOMAIN b THEN b[k] ELSE a[k]]

\* const currentSettings = useMemo(...)
currentSettings(r) ==
    Spread(DEFAULT_SETTINGS[r.currentFuel],
           IF r.currentFuel \in DOMAIN r.allSettings
           THEN r.allSettings[r.currentFuel] ELSE << >>)

currentPrice(r) == currentSettings(r).price

currentConsumption(r) == currentSettings(r).consumption

currentTankSize(r) == currentSettings(r).tankSize

amountBRLNum(r) == numeric(r.amountBRLInput)

litersNum(r) == numeric(r.litersInput)

kmRodadosNum(r) == numeric(r.kmRodadosInput)

-----------------------------------------------------------------------------
(* Effects *)

\* A load that takes only a stored list.
LoadEffectListOnly(r, key, state) ==
    IF r.storage[key].kind = "json" /\ r.storage[key].array
    THEN r.storage[key].value ELSE state

\* useLocalStorage, first effect: after the mount the stored value, when there
\* is one and it parses, becomes the state.
LoadEffect(r, key, state) ==
    IF r.storage[key].kind = "json" THEN r.storage[key].value ELSE state

\* useLocalStorage, second effect: the state is written back unless it
\* serializes to the same text as the initial value.
SaveEffect(store, key, text, initialText) ==
    IF text # initialText THEN [store EXCEPT ![key] = text] ELSE store

\* The same effect reading the default price of the fuel, not the current one.
AmountEffectAtDefaultPrice(r) ==
    IF Gt(numeric(r.amountBRLInput), Zero) /\ Gt(DEFAULT_SETTINGS[r.currentFuel].price, Zero)
    THEN fmtNum(Div(numeric(r.amountBRLInput), DEFAULT_SETTINGS[r.currentFuel].price), 2)
    ELSE Empty

\* The effect that recomputes "Litros" from "Valor (R$)".
AmountEffect(r) ==
    IF Gt(numeric(r.amountBRLInput), Zero) /\ Gt(currentPrice(r), Zero)
    THEN fmtNum(Div(numeric(r.amountBRLInput), currentPrice(r)), 2)
    ELSE Empty

\* The same effect without its test of the price.
LitersEffectAnyPrice(r) ==
    IF Gt(numeric(r.litersInput), Zero)
    THEN fmtNum(Mul(numeric(r.litersInput), currentPrice(r)), 2)
    ELSE Empty

\* The effect that recomputes "Valor (R$)" from "Litros".
LitersEffect(r) ==
    IF Gt(numeric(r.litersInput), Zero) /\ Gt(currentPrice(r), Zero)
    THEN fmtNum(Mul(numeric(r.litersInput), currentPrice(r)), 2)
    ELSE Empty

\* All effects of one commit: `prev` is the render before, `cur` the render
\* committed, `first` whether it is the mount. Every effect reads `cur`; an
\* effect runs when one of its dependencies differs from `prev`. The result
\* holds the state the effects set and the storage they wrote.
RunEffects(prev, cur, first) ==
    LET fuelChanged == first \/ prev.currentFuel # cur.currentFuel
        priceChanged == first \/ currentPrice(prev) # currentPrice(cur)
        activeChanged == first \/ prev.activeField # cur.activeField
        amountDeps == priceChanged \/ activeChanged
                        \/ prev.amountBRLInput # cur.amountBRLInput
        litersDeps == priceChanged \/ activeChanged
                        \/ prev.litersInput # cur.litersInput
    IN  [cur EXCEPT
           !.history = IF first THEN LoadEffect(cur, STORAGE_KEY_HISTORY, @) ELSE @,
           !.allSettings = IF first THEN LoadEffect(cur, STORAGE_KEY_SETTINGS, @) ELSE @,
           !.storage =
               SaveEffect(
                   SaveEffect(@, STORAGE_KEY_HISTORY,
                              StringifyHistory(cur.history), StringifyHistory(<< >>)),
                   STORAGE_KEY_SETTINGS,
                   StringifySettings(cur.allSettings), StringifySettings(DEFAULT_SETTINGS)),
           !.priceInput = IF fuelChanged THEN fmtNum(currentSettings(cur).price, 2) ELSE @,
           !.consumptionInput =
               IF fuelChanged THEN fmtNum(currentSettings(cur).consumption, 1) ELSE @,
           !.tankSizeInput =
               IF fuelChanged THEN fmtNum(currentSettings(cur).tankSize, 1) ELSE @,
           !.litersInput =
               IF amountDeps /\ cur.activeField = "amount" THEN AmountEffect(cur) ELSE @,
           !.amountBRLInput =
               IF litersDeps /\ cur.activeField = "liters" THEN LitersEffect(cur) ELSE @]

\* Renders and effects repeated until no effect changes the state.
RECURSIVE Commit(_, _, _)
Commit(prev, cur, first) ==
    LET next == RunEffects(prev, cur, first)
    IN  IF [next EXCEPT !.storage = cur.storage] = cur THEN next
        ELSE Commit(cur, next, FALSE)

\* The state after a handler has set `cur` and React has committed it
\* (`first`: the commit is the mount).
Become(cur, first) ==
    \E fin \in {Commit(Render, cur, first)} :
        /\ storage' = fin.storage
        /\ currentFuel' = fin.currentFuel
        /\ amountBRLInput' = fin.amountBRLInput
        /\ litersInput' = fin.litersInput
        /\ kmRodadosInput' = fin.kmRodadosInput
        /\ history' = fin.history
        /\ allSettings' = fin.allSettings
        /\ priceInput' = fin.priceInput
        /\ consumptionInput' = fin.consumptionInput
        /\ tankSizeInput' = fin.tankSizeInput
        /\ activeField' = fin.activeField
        /\ simulacaoCommuteInput' = fin.simulacaoCommuteInput

\* What `last` records of a handler: its name, its argument (a record id, a
\* field name or the file read; "" when it has none or it is not recorded),
\* the answer to its confirm dialog, whether it showed an alert, and the text
\* of the file it made the browser download (Absent when it made none).
Log(op, arg, confirm, alert) ==
    [op |-> op, arg |-> arg, confirm |-> confirm, alert |-> alert,
     download |-> Absent]

\* A handler that made the browser download a file holding `text`.
Downloading(log, text) == [log EXCEPT !.download = text]

Answer(yes) == IF yes THEN "yes" ELSE "no"

-----------------------------------------------------------------------------
(* Bounds and inputs *)

\* The fuel tabs the user switches between.
TabFuels == {"Etanol", "Gasolina"}

\* Texts typed into the form and into the settings inputs.
AmountTexts == {<<"1", "0", "0">>, <<"0", ",", "0", "1">>}

LitersTexts == {Empty, <<"6", "0">>}

KmTexts == {<<"5", "0">>}

CommuteTexts == {<<"-", "5">>}

PriceTexts == {<<"0">>, <<"-", "1">>}

ConsumptionTexts == {<<"1", "0">>}

TankTexts == {<<"0">>}

\* The results uid() can give.
Ids == {"a", "b"}

MaxHistory == 2

MaxReaders == 1

MaxTime == 1

\* The number of events of a session.
MaxEvents == 6

\* Every handler counts as one event of the session, and none is a conversion
\* called on its own.
Tick == events < MaxEvents /\ events' = events + 1 /\ UNCHANGED conversion

\* new Date(t).toISOString(), t counted in milliseconds from a fixed instant.
toISOString(t) ==
    CASE t = 1 -> "2025-01-01T00:00:00.001Z"
      [] t = 2 -> "2025-01-01T00:00:00.002Z"
      [] t = 3 -> "2025-01-01T00:00:00.003Z"
      [] OTHER -> "2025-01-01T00:00:00.004Z"

Refuel(id, date, fuelType, amountBRL, liters, km, price) ==
    [id |-> id, date |-> date, fuelType |-> fuelType, amountBRL |-> amountBRL,
     liters |-> liters, km |-> km, pricePerLiter |-> price]

\* Elements of the files offered for import.
FileRecA == Refuel("a", toISOString(1), "Etanol", NumOf(40), NumOf(10), NumOf(100), NumOf(4))

FileRecB == Refuel("b", toISOString(2), "Etanol", NumOf(80), NumOf(20), NumOf(150), NumOf(4))

FileRecNegative == [FileRecA EXCEPT !.liters = NumOf(-5)]

FileRecUnknownFuel == [FileRecB EXCEPT !.fuelType = "Querosene"]

FileRecZero == [FileRecB EXCEPT !.liters = Zero]

FileRecNoId == [FileRecB EXCEPT !.id = ""]

JsonArray(items) == [kind |-> "json", array |-> TRUE, value |-> items]

\* The files the user can select.
Files ==
    {Malformed,
     [kind |-> "json", array |-> FALSE, value |-> FileRecA],
     JsonArray(<<FileRecA>>),
     JsonArray(<<FileRecA, FileRecB>>),
     JsonArray(<<FileRecA, FileRecA>>),
     JsonArray(<<Null, FileRecNoId, FileRecZero>>),
     JsonArray(<<FileRecZero, FileRecNegative, FileRecUnknownFuel>>)}

\* What localStorage can hold when the page is opened: nothing, text that
\* does not parse, or what an earlier session wrote.
StoredHistory == StringifyHistory(<<FileRecA>>)

StoredSettings ==
    StringifySettings([DEFAULT_SETTINGS EXCEPT !["Etanol"].price = NumOf(5)])

InitialStorages ==
    {[k \in {STORAGE_KEY_HISTORY, STORAGE_KEY_SETTINGS} |-> Absent],
     [k \in {STORAGE_KEY_HISTORY, STORAGE_KEY_SETTINGS} |-> Malformed],
     [k \in {STORAGE_KEY_HISTORY, STORAGE_KEY_SETTINGS} |->
        IF k = STORAGE_KEY_HISTORY THEN StoredHistory ELSE StoredSettings]}


-----------------------------------------------------------------------------
(* Initial state: the component as constructed, before its mount effects *)

PageInit ==
    /\ mounted = FALSE
    /\ storage \in InitialStorages
    /\ currentFuel = "Etanol"
    /\ amountBRLInput = Empty
    /\ litersInput = Empty
    /\ kmRodadosInput = Empty
    /\ history = << >>
    /\ allSettings = DEFAULT_SETTINGS
    /\ isSettingsModalOpen = FALSE
    /\ priceInput = fmtNum(DEFAULT_SETTINGS["Etanol"].price, 2)
    /\ consumptionInput = fmtNum(DEFAULT_SETTINGS["Etanol"].consumption, 1)
    /\ tankSizeInput = fmtNum(DEFAULT_SETTINGS["Etanol"].tankSize, 1)
    /\ activeField = "null"
    /\ pricePerLiter = Num(409, 100)
    /\ simulacaoCommuteInput = <<"2", "4">>
    /\ readers = << >>
    /\ now = 1
    /\ events = 0
    /\ last = Log("render", "", "none", FALSE)

Init == PageInit /\ conversion = NoConversion

-----------------------------------------------------------------------------
(* Handlers *)

\* The mount: every effect runs once, the two loads included.
Mount ==
    /\ Tick
    /\ ~mounted
    /\ mounted' = TRUE
    /\ Become(Render, TRUE)
    /\ last' = Log("mount", "", "none", FALSE)
    /\ UNCHANGED <<pricePerLiter, isSettingsModalOpen, readers, now>>

\* ResponsiveFuelSelector onChange
setCurrentFuel(fuel) ==
    /\ Tick
    /\ mounted
    /\ Become([Render EXCEPT !.currentFuel = fuel], FALSE)
    /\ last' = Log("setCurrentFuel", "", "none", FALSE)
    /\ UNCHANGED <<pricePerLiter, mounted, isSettingsModalOpen, readers, now>>

\* "Valor Total (R$)" onChange
onChangeAmount(value) ==
    /\ Tick
    /\ mounted
    /\ Become([Render EXCEPT !.activeField = "amount",
                             !.amountBRLInput = value,
                             !.litersInput = IF value = Empty THEN Empty ELSE @], FALSE)
    /\ last' = Log("onChangeAmount", "", "none", FALSE)
    /\ UNCHANGED <<pricePerLiter, mounted, isSettingsModalOpen, readers, now>>

\* "Litros" onChange
onChangeLiters(value) ==
    /\ Tick
    /\ mounted
    /\ Become([Render EXCEPT !.activeField = "liters",
                             !.litersInput = value,
                             !.amountBRLInput = IF value = Empty THEN Empty ELSE @], FALSE)
    /\ last' = Log("onChangeLiters", "", "none", FALSE)
    /\ UNCHANGED <<pricePerLiter, mounted, isSettingsModalOpen, readers, now>>

\* onBlur of "Valor Total (R$)" and of "Litros"
onBlurLinked ==
    /\ Tick
    /\ mounted
    /\ Become([Render EXCEPT !.activeField = "null"], FALSE)
    /\ last' = Log("onBlurLinked", "", "none", FALSE)
    /\ UNCHANGED <<pricePerLiter, mounted, isSettingsModalOpen, readers, now>>

\* "Km Rodados" onChange
onChangeKm(value) ==
    /\ Tick
    /\ mounted
    /\ Become([Render EXCEPT !.kmRodadosInput = value], FALSE)
    /\ last' = Log("onChangeKm", "", "none", FALSE)
    /\ UNCHANGED <<pricePerLiter, mounted, isSettingsModalOpen, readers, now>>

\* "Deslocamento Diário" onChange
setSimulacaoCommuteInput(value) ==
    /\ Tick
    /\ mounted
    /\ Become([Render EXCEPT !.simulacaoCommuteInput = value], FALSE)
    /\ last' = Log("setSimulacaoCommuteInput", "", "none", FALSE)
    /\ UNCHANGED <<pricePerLiter, mounted, isSettingsModalOpen, readers, now>>

\* The "Editar" button, and the modal's close and OK buttons.
setSettingsModalOpen(open) ==
    /\ Tick
    /\ mounted
    /\ open \/ isSettingsModalOpen
    /\ isSettingsModalOpen' = open
    /\ last' = Log("setSettingsModalOpen", "", "none", FALSE)
    /\ UNCHANGED <<pricePerLiter, simulacaoCommuteInput, mounted, storage, currentFuel,
                   amountBRLInput, litersInput,
                   kmRodadosInput, history, allSettings, priceInput, consumptionInput,
                   tankSizeInput, activeField, readers, now>>

\* onChange of one of the three inputs of the settings modal
setSettingInput(field, value) ==
    /\ Tick
    /\ mounted
    /\ isSettingsModalOpen
    /\ Become([Render EXCEPT
                 !.priceInput = IF field = "price" THEN value ELSE @,
                 !.consumptionInput = IF field = "consumption" THEN value ELSE @,
                 !.tankSizeInput = IF field = "tankSize" THEN value ELSE @], FALSE)
    /\ last' = Log("setSettingInput", field, "none", FALSE)
    /\ UNCHANGED <<pricePerLiter, mounted, isSettingsModalOpen, readers, now>>

\* setAllSettings(prev => ...) of handleSettingsChange
WithSetting(prev, fuel, field, numValue) ==
    Spread(prev,
           [f \in {fuel} |->
              Spread(IF fuel \in DOMAIN prev THEN prev[fuel] ELSE << >>,
                     [k \in {field} |-> numValue])])

\* handleSettingsChange without its check of the sign.
handleSettingsChangeResultUnchecked(r, field, value) ==
    WithSetting(r.allSettings, r.currentFuel, field, numeric(value))

\* handleSettingsChange applied to the settings map of render r
handleSettingsChangeResult(r, field, value) ==
    IF Lt(numeric(value), Zero) THEN r.allSettings
    ELSE WithSetting(r.allSettings, r.currentFuel, field, numeric(value))

\* The fields of FuelSettings.
SettingFields == {"price", "consumption", "tankSize"}

\* The text of the settings input of a field, which its onBlur passes on.
SettingText(field) ==
    CASE field = "price" -> priceInput
      [] field = "consumption" -> consumptionInput
      [] field = "tankSize" -> tankSizeInput

\* onBlur of one of the three inputs of the settings modal
handleSettingsChange(field) ==
    /\ Tick
    /\ mounted
    /\ isSettingsModalOpen
    /\ Become([Render EXCEPT
                 !.allSettings =
                     handleSettingsChangeResult(Render, field, SettingText(field))], FALSE)
    /\ last' = Log("handleSettingsChange", field, "none", FALSE)
    /\ UNCHANGED <<pricePerLiter, mounted, isSettingsModalOpen, readers, now>>

\* addRefuel: the two values it settles on before it builds the record
finalLiters(r) ==
    IF Gt(litersNum(r), Zero) THEN litersNum(r)
    ELSE Div(amountBRLNum(r), currentPrice(r))

finalAmountBRL(r) ==
    IF Gt(litersNum(r), Zero) THEN Mul(litersNum(r), currentPrice(r))
    ELSE amountBRLNum(r)

\* The first early return with one comparison made strict.
addRefuelRejectsStrict(r) == Le(amountBRLNum(r), Zero) /\ Lt(litersNum(r), Zero)

\* addRefuel: its first early return, with the alert
addRefuelRejects(r) == Le(amountBRLNum(r), Zero) /\ Le(litersNum(r), Zero)

\* addRefuel: its second early return
addRefuelSkips(r) == Le(finalLiters(r), Zero)

\* addRefuel: const newRefuel
newRefuel(r, id, date) ==
    Refuel(id, date, r.currentFuel,
           ToFixedNum(finalAmountBRL(r), 2),
           ToFixedNum(finalLiters(r), 2),
           kmRodadosNum(r),
           ToFixedNum(Div(finalAmountBRL(r), finalLiters(r)), 2))

\* An update of the history that replaces the record of the same id.
withNewRefuelUpsert(prev, rec) == <<rec>> \o SelectSeq(prev, LAMBDA p : p.id # rec.id)

\* addRefuel: setHistory(prev => [newRefuel, ...prev])
withNewRefuel(prev, rec) == <<rec>> \o prev

\* The "Salvar Registro" button. uid() gives any id and the clock any time
\* not before its last reading.
addRefuel ==
    /\ Tick
    /\ mounted
    /\ IF addRefuelRejects(Render)
       THEN /\ last' = Log("addRefuel", "", "none", TRUE)
            /\ UNCHANGED <<storage, currentFuel, amountBRLInput, litersInput,
                           kmRodadosInput, history, allSettings, priceInput,
                           consumptionInput, tankSizeInput, activeField,
                           simulacaoCommuteInput, now>>
       ELSE IF addRefuelSkips(Render)
       THEN /\ last' = Log("addRefuel", "", "none", FALSE)
            /\ UNCHANGED <<storage, currentFuel, amountBRLInput, litersInput,
                           kmRodadosInput, history, allSettings, priceInput,
                           consumptionInput, tankSizeInput, activeField,
                           simulacaoCommuteInput, now>>
       ELSE /\ Len(history) < MaxHistory
            /\ \E id \in Ids, t \in now..MaxTime :
                 /\ now' = t
                 /\ Become([Render EXCEPT
                              !.history =
                                  withNewRefuel(@, newRefuel(Render, id, toISOString(t))),
                              !.amountBRLInput = Empty,
                              !.litersInput = Empty,
                              !.kmRodadosInput = Empty], FALSE)
                 /\ last' = Log("addRefuel", id, "none", FALSE)
    /\ UNCHANGED <<pricePerLiter, mounted, isSettingsModalOpen, readers>>

\* A removal by position: the newest record goes, whatever the id.
WithoutIdHead(prev, id) == IF prev = << >> THEN prev ELSE Tail(prev)

\* prev.filter(p => p.id !== id)
WithoutId(prev, id) == SelectSeq(prev, LAMBDA p : p.id # id)

\* The trash button of a history row; `yes` is the answer to its confirm.
removeEntry(id, yes) ==
    /\ Tick
    /\ mounted
    /\ \E i \in 1..Len(history) : history[i].id = id /\ history[i].fuelType = currentFuel
    /\ Become([Render EXCEPT !.history = IF yes THEN WithoutId(@, id) ELSE @], FALSE)
    /\ last' = Log("removeEntry", id, Answer(yes), FALSE)
    /\ UNCHANGED <<pricePerLiter, mounted, isSettingsModalOpen, readers, now>>

\* The "Limpar Tudo" button; `yes` is the answer to its confirm.
clearAll(yes) ==
    /\ Tick
    /\ mounted
    /\ Become([Render EXCEPT !.history = IF yes THEN << >> ELSE @], FALSE)
    /\ last' = Log("clearAll", "", Answer(yes), FALSE)
    /\ UNCHANGED <<pricePerLiter, mounted, isSettingsModalOpen, readers, now>>

\* The "Exportar" button: an alert when the history is empty, a download
\* otherwise; no state of the page changes.
exportJSON ==
    /\ Tick
    /\ mounted
    /\ last' = IF Len(history) = 0
               THEN Log("exportJSON", "", "none", TRUE)
               ELSE Downloading(Log("exportJSON", "", "none", FALSE),
                                StringifyHistory(history))
    /\ UNCHANGED <<pricePerLiter, simulacaoCommuteInput, mounted, storage, currentFuel,
                   amountBRLInput, litersInput,
                   kmRodadosInput, history, allSettings, isSettingsModalOpen,
                   priceInput, consumptionInput, tankSizeInput, activeField,
                   readers, now>>

\* importJSON: the file input's onChange. The read is started; its onload
\* closes over the history of the render in which the file was selected.
importJSON(file) ==
    /\ Tick
    /\ mounted
    /\ Len(readers) < MaxReaders
    /\ readers' = Append(readers, [file |-> file, history |-> history])
    /\ last' = Log("importJSON", "", "none", FALSE)
    /\ UNCHANGED <<pricePerLiter, simulacaoCommuteInput, mounted, storage, currentFuel,
                   amountBRLInput, litersInput,
                   kmRodadosInput, history, allSettings, isSettingsModalOpen,
                   priceInput, consumptionInput, tankSizeInput, activeField, now>>

\* importJSON: p && p.id && p.date && p.liters && p.fuelType
validEntry(p) ==
    /\ p # Null
    /\ TruthyStr(p.id) /\ TruthyStr(p.date) /\ TruthyNum(p.liters)
    /\ TruthyStr(p.fuelType)

\* importJSON: whether JSON.parse or parsed.filter throws
importThrows(file) == file.kind # "json" \/ ~file.array

validEntries(file) == SelectSeq(file.value, validEntry)

\* new Set(history.map(h => h.id))
IdsOf(h) == {h[i].id : i \in 1..Len(h)}

\* importJSON: validEntries.filter(p => !existingIds.has(p.id)), existingIds
\* taken from the history the handler closed over
newEntries(file, closed) ==
    SelectSeq(validEntries(file), LAMBDA p : p.id \notin IdsOf(closed))

\* Whether the onload reaches its setHistory.
importAdds(file, closed) ==
    /\ ~importThrows(file)
    /\ validEntries(file) # << >>
    /\ newEntries(file, closed) # << >>

\* An onload that takes JSON that is no array for a list of one record.
importResultLenient(file, closed, prev) ==
    IF importAdds(file, closed) THEN prev \o newEntries(file, closed)
    ELSE IF file.kind = "json" /\ ~file.array THEN prev \o <<file.value>>
    ELSE prev

\* The history after the onload: setHistory(prev => [...prev, ...newEntries])
\* when it is reached, and prev when the onload returns early or catches.
importResult(file, closed, prev) ==
    IF importAdds(file, closed) THEN prev \o newEntries(file, closed) ELSE prev

Without(seq, i) == [j \in 1..(Len(seq) - 1) |-> IF j < i THEN seq[j] ELSE seq[j + 1]]

\* reader.onload of the i-th pending read; every path ends in an alert.
readerOnload(i) ==
    /\ Tick
    /\ mounted
    /\ i \in 1..Len(readers)
    /\ readers' = Without(readers, i)
    /\ \E result \in {importResult(readers[i].file, readers[i].history, history)} :
         /\ Len(result) <= MaxHistory
         /\ Become([Render EXCEPT !.history = result], FALSE)
    /\ last' = Log("readerOnload", readers[i].file, "none", TRUE)
    /\ UNCHANGED <<pricePerLiter, mounted, isSettingsModalOpen, now>>

-----------------------------------------------------------------------------
(* Values a render derives from the history *)

\* new Date(date).getTime() for the dates the model writes; NaN for text
\* that is no date.
getTime(date) ==
    CASE date = toISOString(1) -> NumOf(1)
      [] date = toISOString(2) -> NumOf(2)
      [] date = toISOString(3) -> NumOf(3)
      [] date = toISOString(4) -> NumOf(4)
      [] OTHER -> NaN

\* Whether the comparator of a sort by date puts y after x: for the
\* descending sort getTime(x) - getTime(y) > 0, for the ascending one
\* getTime(y) - getTime(x) > 0.
comesAfter(y, x, descending) ==
    IF descending THEN Gt(getTime(x.date), getTime(y.date))
    ELSE Gt(getTime(y.date), getTime(x.date))

\* Array.prototype.sort, which is stable: x goes behind every element the
\* comparator does not put after it.
RECURSIVE insertByDate(_, _, _)
insertByDate(sorted, x, descending) ==
    IF sorted = << >> THEN <<x>>
    ELSE IF comesAfter(sorted[Len(sorted)], x, descending)
    THEN insertByDate(SubSeq(sorted, 1, Len(sorted) - 1), x, descending)
           \o <<sorted[Len(sorted)]>>
    ELSE sorted \o <<x>>

RECURSIVE sortByDate(_, _)
sortByDate(seq, descending) ==
    IF seq = << >> THEN << >>
    ELSE insertByDate(sortByDate(SubSeq(seq, 1, Len(seq) - 1), descending),
                      seq[Len(seq)], descending)

\* The records of the current fuel as the history holds them, not sorted.
filteredHistoryUnsorted(r) ==
    SelectSeq(r.history, LAMBDA h : h.fuelType = r.currentFuel)

\* const filteredHistory = useMemo(...)
filteredHistory(r) ==
    sortByDate(SelectSeq(r.history, LAMBDA h : h.fuelType = r.currentFuel), TRUE)

\* chartData before its map: filteredHistory.slice().sort(...)
chartSorted(r) == sortByDate(filteredHistory(r), FALSE)

\* toLocaleDateString('pt-BR', {day, month}) of the dates the model writes,
\* in a browser whose time zone is UTC.
toLocaleDateString(date) ==
    IF IsNaN(getTime(date)) THEN "Invalid Date" ELSE "01/01"

\* One point of the chart.
chartPoint(h) ==
    [date |-> toLocaleDateString(h.date),
     kmpl |-> IF IsNumber(h.liters) /\ Gt(h.liters, Zero)
              THEN ToFixedNum(Div(h.km, h.liters), 2) ELSE Zero,
     pricePerLiter |-> h.pricePerLiter]

\* const chartData = useMemo(...)
chartData(r) == [i \in 1..Len(chartSorted(r)) |-> chartPoint(chartSorted(r)[i])]

\* const lastRefuel = filteredHistory[0] || null
lastRefuel(r) == IF filteredHistory(r) = << >> THEN Null ELSE filteredHistory(r)[1]

\* The entries the average is taken over when only the distance is tested.
validEntriesAnyLiters(r) ==
    SelectSeq(filteredHistory(r), LAMBDA h : IsNumber(h.km) /\ Gt(h.km, Zero))

\* const validEntries = filteredHistory.filter(h => h.km > 0 && h.liters > 0)
\* (null > 0 is false)
validEntriesForAvg(r) ==
    SelectSeq(filteredHistory(r),
              LAMBDA h : /\ IsNumber(h.km) /\ Gt(h.km, Zero)
                         /\ IsNumber(h.liters) /\ Gt(h.liters, Zero))

\* entries.reduce((sum, h) => sum + h[field], 0)
RECURSIVE reduceSum(_, _)
reduceSum(entries, field) ==
    IF entries = << >> THEN Zero
    ELSE Add(reduceSum(SubSeq(entries, 1, Len(entries) - 1), field),
             entries[Len(entries)][field])

\* const avgConsumption = useMemo(...)
avgConsumption(r) ==
    IF Len(validEntriesForAvg(r)) = 0 THEN currentConsumption(r)
    ELSE Div(reduceSum(validEntriesForAvg(r), "km"),
             reduceSum(validEntriesForAvg(r), "liters"))

-----------------------------------------------------------------------------
(* Values a render derives from the form *)

\* const liters = litersNum > 0 ? litersNum : (amountBRLNum / currentPrice)
formLiters(r) ==
    IF Gt(litersNum(r), Zero) THEN litersNum(r)
    ELSE Div(amountBRLNum(r), currentPrice(r))

\* const simCommuteNum = useMemo(...)
simCommuteNum(r) == numeric(r.simulacaoCommuteInput)

\* const autonomyFromForm = useMemo(...)
autonomyFromForm(r) == Mul(formLiters(r), currentConsumption(r))

\* const daysOfAutonomy = useMemo(...): `=== 0` is the only test made
daysOfAutonomy(r) ==
    IF autonomyFromForm(r) = Zero \/ simCommuteNum(r) = Zero THEN Zero
    ELSE Div(autonomyFromForm(r), simCommuteNum(r))

\* const isOverTankLimit = useMemo(...)
isOverTankLimit(r) ==
    Gt(formLiters(r), Zero) /\ Gt(formLiters(r), currentTankSize(r))

-----------------------------------------------------------------------------
(* Specification *)

\* One event of the session: the mount, a user event or a completed read.
Next ==
    \/ Mount
    \/ \E fuel \in TabFuels : setCurrentFuel(fuel)
    \/ \E value \in AmountTexts : onChangeAmount(value)
    \/ \E value \in LitersTexts : onChangeLiters(value)
    \/ onBlurLinked
    \/ \E value \in KmTexts : onChangeKm(value)
    \/ \E value \in CommuteTexts : setSimulacaoCommuteInput(value)
    \/ \E open \in BOOLEAN : setSettingsModalOpen(open)
    \/ \E value \in PriceTexts : setSettingInput("price", value)
    \/ \E value \in ConsumptionTexts : setSettingInput("consumption", value)
    \/ \E value \in TankTexts : setSettingInput("tankSize", value)
    \/ \E field \in SettingFields : handleSettingsChange(field)
    \/ addRefuel
    \/ \E id \in Ids, yes \in BOOLEAN : removeEntry(id, yes)
    \/ \E yes \in BOOLEAN : clearAll(yes)
    \/ exportJSON
    \/ \E file \in Files : importJSON(file)
    \/ \E i \in 1..MaxReaders : readerOnload(i)

Spec == Init /\ [][Next]_vars

-----------------------------------------------------------------------------
(* The first version of the page (app/page.tsx). It keeps its history under
   its own key, has one price for every refuel and no fuel types. Of the
   variables above it uses storage, history, amountBRLInput (its amountBRL),
   litersInput, pricePerLiter, readers, now, events and last. *)

STORAGE_KEY == "scenic_fuel_history_v1"

\* String(+x.toFixed(2)): the shortest decimal text of a number that has at
\* most two decimals, and the names of the values that are not finite.
StringOfFixed(x) ==
    IF IsNaN(x) THEN <<"N", "a", "N">>
    ELSE IF ~IsFinite(x)
    THEN (IF x.n < 0 THEN <<"-">> ELSE << >>) \o <<"I", "n", "f", "i", "n", "i", "t", "y">>
    ELSE LET r == RoundScaled(x, 2)
         IN  (IF x.n < 0 /\ r # 0 THEN <<"-">> ELSE << >>)
               \o NatText(r \div 100)
               \o (IF r % 100 = 0 THEN << >>
                   ELSE IF r % 10 = 0 THEN <<".", DigitChar((r % 100) \div 10)>>
                   ELSE <<".">> \o FracText(r % 100, 2))

\* The values one render of the first version sees.
RenderV1 ==
    [storage |-> storage, history |-> history, pricePerLiter |-> pricePerLiter,
     amountBRL |-> amountBRLInput, litersInput |-> litersInput]

\* useLocalStorage of the first version, the lazy initial state.
InitialStateV1(store, key, initial) ==
    IF store[key].kind = "json" THEN store[key].value ELSE initial

\* The effects of one commit of the first version: the history is written
\* back whenever it changed, and "Valor" follows a non-empty "Litros".
RunEffectsV1(prev, cur, first) ==
    [cur EXCEPT
       !.storage =
           IF first \/ prev.history # cur.history
           THEN [@ EXCEPT ![STORAGE_KEY] = StringifyHistory(cur.history)] ELSE @,
       !.amountBRL =
           IF (first \/ prev.litersInput # cur.litersInput
                     \/ prev.pricePerLiter # cur.pricePerLiter)
              /\ cur.litersInput # Empty
           THEN StringOfFixed(Mul(numeric(cur.litersInput), cur.pricePerLiter))
           ELSE @]

RECURSIVE CommitV1(_, _, _)
CommitV1(prev, cur, first) ==
    LET next == RunEffectsV1(prev, cur, first)
    IN  IF [next EXCEPT !.storage = cur.storage] = cur THEN next
        ELSE CommitV1(cur, next, FALSE)

\* The variables of the page that the first version does not have.
laterVars ==
    <<currentFuel, kmRodadosInput, allSettings, isSettingsModalOpen, priceInput,
      consumptionInput, tankSizeInput, activeField, simulacaoCommuteInput>>

BecomeV1(cur, first) ==
    \E fin \in {CommitV1(RenderV1, cur, first)} :
        /\ storage' = fin.storage
        /\ history' = fin.history
        /\ pricePerLiter' = fin.pricePerLiter
        /\ amountBRLInput' = fin.amountBRL
        /\ litersInput' = fin.litersInput
        /\ UNCHANGED laterVars

\* A record of the first version: no fuel type.
RefuelV1(id, date, amountBRL, liters, km, price) ==
    [id |-> id, date |-> date, amountBRL |-> amountBRL, liters |-> liters,
     km |-> km, pricePerLiter |-> price]

StoredHistoryV1 ==
    StringifyHistory(<<RefuelV1("a", toISOString(1), NumOf(40), NumOf(10), Zero, NumOf(4))>>)

InitV1 ==
    /\ mounted = FALSE
    /\ storage \in {[k \in {STORAGE_KEY} |-> Absent],
                    [k \in {STORAGE_KEY} |-> Malformed],
                    [k \in {STORAGE_KEY} |-> StoredHistoryV1]}
    /\ history = InitialStateV1(storage, STORAGE_KEY, << >>)
    /\ conversion = NoConversion
    /\ pricePerLiter = Num(409, 100)
    /\ simulacaoCommuteInput = <<"2", "4">>
    /\ amountBRLInput = <<"6", "0">>
    /\ litersInput = Empty
    /\ currentFuel = "Etanol"
    /\ kmRodadosInput = Empty
    /\ allSettings = DEFAULT_SETTINGS
    /\ isSettingsModalOpen = FALSE
    /\ priceInput = Empty
    /\ consumptionInput = Empty
    /\ tankSizeInput = Empty
    /\ activeField = "null"
    /\ readers = << >>
    /\ now = 1
    /\ events = 0
    /\ last = Log("render", "", "none", FALSE)

MountV1 ==
    /\ Tick
    /\ ~mounted
    /\ mounted' = TRUE
    /\ BecomeV1(RenderV1, TRUE)
    /\ last' = Log("mount", "", "none", FALSE)
    /\ UNCHANGED <<readers, now>>

\* "Preço por litro" onChange
setPricePerLiter(value) ==
    /\ Tick
    /\ mounted
    /\ BecomeV1([RenderV1 EXCEPT !.pricePerLiter = numeric(value)], FALSE)
    /\ last' = Log("setPricePerLiter", "", "none", FALSE)
    /\ UNCHANGED <<mounted, readers, now>>

\* "Valor" onChange
setAmountBRL(value) ==
    /\ Tick
    /\ mounted
    /\ BecomeV1([RenderV1 EXCEPT !.amountBRL = value], FALSE)
    /\ last' = Log("setAmountBRL", "", "none", FALSE)
    /\ UNCHANGED <<mounted, readers, now>>

\* "Litros" onChange
setLitersInput(value) ==
    /\ Tick
    /\ mounted
    /\ BecomeV1([RenderV1 EXCEPT !.litersInput = value], FALSE)
    /\ last' = Log("setLitersInput", "", "none", FALSE)
    /\ UNCHANGED <<mounted, readers, now>>

\* addRefuel(liters, amountBRLVal, km) of the first version, then the two
\* setters its buttons call after it.
addRefuelV1(liters, amountBRLVal) ==
    /\ Len(history) < MaxHistory
    /\ \E id \in Ids, t \in now..MaxTime :
         /\ now' = t
         /\ BecomeV1([RenderV1 EXCEPT
                        !.history = <<RefuelV1(id, toISOString(t), amountBRLVal, liters,
                                               Zero, pricePerLiter)>> \o @,
                        !.litersInput = Empty,
                        !.amountBRL = Empty], FALSE)
         /\ last' = Log("addRefuel", id, "none", FALSE)
    /\ UNCHANGED <<mounted, readers>>

\* The button "Adicionar (a partir de R$)"
addFromAmount ==
    /\ Tick
    /\ mounted
    /\ addRefuelV1(Div(numeric(amountBRLInput), pricePerLiter), numeric(amountBRLInput))

\* The button "Adicionar (litros)"
addFromLiters ==
    /\ Tick
    /\ mounted
    /\ IF litersInput = Empty
       THEN /\ last' = Log("addRefuel", "", "none", FALSE)
            /\ UNCHANGED <<mounted, storage, history, pricePerLiter, amountBRLInput,
                           litersInput, readers, now>>
            /\ UNCHANGED laterVars
       ELSE addRefuelV1(numeric(litersInput), Mul(numeric(litersInput), pricePerLiter))

\* The "Remover" button of a history row: no dialog.
removeEntryV1(id) ==
    /\ Tick
    /\ mounted
    /\ \E i \in 1..Len(history) : history[i].id = id
    /\ BecomeV1([RenderV1 EXCEPT !.history = WithoutId(@, id)], FALSE)
    /\ last' = Log("removeEntry", id, "none", FALSE)
    /\ UNCHANGED <<mounted, readers, now>>

\* The button "Limpar histórico": onClick={()=>setHistory([])}, no dialog.
clearHistoryV1 ==
    /\ Tick
    /\ mounted
    /\ BecomeV1([RenderV1 EXCEPT !.history = << >>], FALSE)
    /\ last' = Log("clearAll", "", "none", FALSE)
    /\ UNCHANGED <<mounted, readers, now>>

\* The button "Exportar JSON": a download, no state of the page changes.
exportJSONV1 ==
    /\ Tick
    /\ mounted
    /\ last' = Downloading(Log("exportJSON", "", "none", FALSE),
                            StringifyHistory(history))
    /\ UNCHANGED <<mounted, storage, history, pricePerLiter, amountBRLInput,
                   litersInput, readers, now>>
    /\ UNCHANGED laterVars

\* importJSON of the first version: the read is started.
importJSONV1(file) ==
    /\ Tick
    /\ mounted
    /\ Len(readers) < MaxReaders
    /\ readers' = Append(readers, [file |-> file, history |-> history])
    /\ last' = Log("importJSON", "", "none", FALSE)
    /\ UNCHANGED <<mounted, storage, history, pricePerLiter, amountBRLInput,
                   litersInput, now>>
    /\ UNCHANGED laterVars

\* importJSON of the first version: p && p.id && p.date && p.liters
validEntryV1(p) ==
    /\ p # Null
    /\ TruthyStr(p.id) /\ TruthyStr(p.date) /\ TruthyNum(p.liters)

\* The history after the onload of the first version:
\* setHistory(prev => [...valid, ...prev]), and prev when the parse throws.
importResultV1(file, prev) ==
    IF importThrows(file) THEN prev
    ELSE SelectSeq(file.value, validEntryV1) \o prev

\* reader.onload of the first version; the alert is that of its catch.
readerOnloadV1(i) ==
    /\ Tick
    /\ mounted
    /\ i \in 1..Len(readers)
    /\ readers' = Without(readers, i)
    /\ \E result \in {importResultV1(readers[i].file, history)} :
         /\ Len(result) <= MaxHistory
         /\ BecomeV1([RenderV1 EXCEPT !.history = result], FALSE)
    /\ last' = Log("readerOnload", readers[i].file, "none", importThrows(readers[i].file))
    /\ UNCHANGED <<mounted, now>>

NextV1 ==
    \/ MountV1
    \/ \E value \in PriceTexts : setPricePerLiter(value)
    \/ \E value \in AmountTexts : setAmountBRL(value)
    \/ \E value \in LitersTexts : setLitersInput(value)
    \/ addFromAmount
    \/ addFromLiters
    \/ \E id \in Ids : removeEntryV1(id)
    \/ clearHistoryV1
    \/ exportJSONV1
    \/ \E file \in Files : importJSONV1(file)
    \/ \E i \in 1..MaxReaders : readerOnloadV1(i)

SpecV1 == InitV1 /\ [][NextV1]_vars

-----------------------------------------------------------------------------
(* The two conversions called on their own: fmtNum(num, 2) on a number, then
   numeric on its text; or numeric on a text. *)

\* Numbers given to fmtNum: thousandths from 0 on, hundredths below 10^5,
\* halves below 10^6 and thirds. (The arithmetic of toFixed on a number n/d
\* needs 200 * n below 2^31.)
MaxThousandths == 150

TopHundredths == 9999999

TopHalves == 1999999

Window == 40

NumArgs ==
    {Num(c, 1000) : c \in 0..MaxThousandths}
      \cup {Num(TopHundredths - c, 100) : c \in 0..Window}
      \cup {Num(TopHalves - c, 2) : c \in 0..Window}
      \cup {Num(c, 3) : c \in 0..Window}

\* Texts given to numeric.
TextArgs ==
    {Empty, <<",">>, <<".">>, <<"-">>, <<"a", "b", "c">>, <<"N", "a", "N">>,
     <<"I", "n", "f", "i", "n", "i", "t", "y">>,
     <<"-", "I", "n", "f", "i", "n", "i", "t", "y">>,
     <<"1", "2", ",", "5">>, <<"1", "2", ".", "5">>,
     <<"0", ",", "0", "1">>, <<"0", ".", "0", "1">>,
     <<"-", "3", ",", "7">>, <<"-", "3", ".", "7">>,
     <<",", "5">>, <<".", "5">>, <<"5", ",">>, <<"5", ".">>,
     <<"+", "4">>, <<"1", "2", "a", "b">>, <<"x", "1", "2">>,
     <<"1", ",", "2", ",", "3">>, <<"1", ".", "2", ".", "3">>,
     <<"1", ".", "2", "3", "4", ",", "5", "6">>, <<"-", ",", "5">>, <<"-", "a">>}

InitNum ==
    /\ PageInit
    /\ storage = [k \in {STORAGE_KEY_HISTORY, STORAGE_KEY_SETTINGS} |-> Absent]
    /\ conversion \in
         {[NoConversion EXCEPT !.phase = "number", !.from = "number", !.num = x]
            : x \in NumArgs}
           \cup {[NoConversion EXCEPT !.phase = "text", !.from = "text", !.text = t]
                   : t \in TextArgs}

\* fmtNum(num, 2)
callFmtNum ==
    /\ conversion.phase = "number"
    /\ conversion' = [conversion EXCEPT !.phase = "text", !.text = fmtNum(conversion.num, 2)]
    /\ UNCHANGED pageVars

\* numeric(text)
callNumeric ==
    /\ conversion.phase = "text"
    /\ conversion' = [conversion EXCEPT !.phase = "done", !.result = numeric(conversion.text)]
    /\ UNCHANGED pageVars

NextNum == callFmtNum \/ callNumeric

SpecNum == InitNum /\ [][NextNum]_vars

-----------------------------------------------------------------------------
(* Persistence *)

\* What a later session would load from a key: the stored value when it is
\* there and parses, the initial value otherwise.
Reloaded(key, initialText) ==
    IF storage[key].kind = "json" THEN storage[key] ELSE initialText

\* C1: once the effects of an action have run, the history key holds the
\* serialization of the in-memory history and the settings key that of the
\* in-memory settings map (a key that holds nothing counts as holding the
\* initial value), also when the history has just become empty or the
\* settings equal to the defaults.
C1_StoredIsCurrent ==
    mounted =>
        /\ Reloaded(STORAGE_KEY_HISTORY, StringifyHistory(<< >>)) = StringifyHistory(history)
        /\ Reloaded(STORAGE_KEY_SETTINGS, StringifySettings(DEFAULT_SETTINGS))
             = StringifySettings(allSettings)

-----------------------------------------------------------------------------
(* Claims about addRefuel *)

\* C2: addRefuel invoked with an amount <= 0 and a volume <= 0 changes
\* neither the history, nor the settings, nor the three form fields.
C2_RejectedAddChangesNothing ==
    [][(/\ last'.op = "addRefuel"
        /\ Le(numeric(amountBRLInput), Zero)
        /\ Le(numeric(litersInput), Zero))
       => /\ last'.alert
          /\ UNCHANGED <<history, allSettings, storage, amountBRLInput, litersInput,
                         kmRodadosInput>>]_vars

\* A rejected addRefuel with a distance filled in and a fuel other than the
\* first selected.
C2_Witness ==
    /\ last = Log("addRefuel", "", "none", TRUE)
    /\ kmRodadosInput # Empty
    /\ currentFuel = "Gasolina"

\* C3: every record addRefuel places in the history has a stored volume > 0.
C3_StoredVolumePositive ==
    (last.op = "addRefuel" /\ last.arg # "") =>
        /\ history # << >>
        /\ history[1].id = last.arg
        /\ Gt(history[1].liters, Zero)

-----------------------------------------------------------------------------
(* Claims about the import *)

\* C4: an import is additive and first-write-wins: when its read completes,
\* the history is the history before it followed by the valid records of the
\* file whose id does not occur in that history.
C4_ImportAdditiveFirstWriteWins ==
    [][(last'.op = "readerOnload" /\ ~importThrows(last'.arg))
       => history' = history \o SelectSeq(validEntries(last'.arg),
                                          LAMBDA p : p.id \notin IdsOf(history))]_vars

\* C5: every record an import adds to the history has one of the four fuel
\* types and a volume > 0.
C5_ImportedRecordsValid ==
    [][last'.op = "readerOnload"
       => \A i \in (Len(history) + 1)..Len(history') :
            /\ history'[i].fuelType \in FuelType
            /\ IsNumber(history'[i].liters)
            /\ Gt(history'[i].liters, Zero)]_vars

\* C6: an import of text that is not JSON, or of JSON that is not an array,
\* leaves the history and what is stored exactly as they were.
C6_BadFileAborts ==
    [][(last'.op = "readerOnload" /\ (last'.arg.kind # "json" \/ ~last'.arg.array))
       => (history' = history /\ storage' = storage)]_vars

\* The read of a file that does not parse has completed on a history that
\* holds a record.
C6_Witness ==
    /\ last.op = "readerOnload"
    /\ last.arg = Malformed
    /\ history # << >>

-----------------------------------------------------------------------------
(* Claims about removal and clearing *)

\* C7: clearAll empties the whole history when its confirmation is accepted,
\* leaves it unchanged when the confirmation is declined, and never empties a
\* history without an accepted confirmation.
C7_ClearAllOnlyAfterConfirmation ==
    [][last'.op = "clearAll"
       => /\ (last'.confirm = "yes" => history' = << >>)
          /\ (last'.confirm = "no" => history' = history)
          /\ ((history # << >> /\ history' = << >>) => last'.confirm = "yes")]_vars

\* C8: removeEntry(id), unless its confirmation is declined, removes the
\* records with that id and nothing else: the other records stay, with their
\* fields and in their order, and the settings are unchanged; declined, it
\* changes nothing.
C8_RemoveEntryFrame ==
    [][last'.op = "removeEntry"
       => /\ history' = IF last'.confirm = "no" THEN history
                        ELSE SelectSeq(history, LAMBDA p : p.id # last'.arg)
          /\ allSettings' = allSettings]_vars

\* A confirmed removal that left another record in the history.
C8_Witness ==
    /\ last.op = "removeEntry"
    /\ last.confirm = "yes"
    /\ history # << >>
    /\ last.arg \notin IdsOf(history)

-----------------------------------------------------------------------------
(* Claims about the settings *)

\* C9: handleSettingsChange with a negative value leaves the settings map
\* unchanged; otherwise it sets that field of the current fuel to the value
\* and leaves every other field of every fuel unchanged; the history is
\* unchanged in both cases. And every field of the settings map is >= 0.
C9_UpdateSettingFrame ==
    /\ [][last'.op = "handleSettingsChange"
          => /\ history' = history
             /\ DOMAIN allSettings' = DOMAIN allSettings
             /\ IF Lt(numeric(SettingText(last'.arg)), Zero)
                THEN allSettings' = allSettings
                ELSE /\ allSettings'[currentFuel][last'.arg] = numeric(SettingText(last'.arg))
                     /\ \A f \in DOMAIN allSettings, k \in SettingFields :
                          (f # currentFuel \/ k # last'.arg)
                             => allSettings'[f][k] = allSettings[f][k]]_vars
    /\ [](\A f \in DOMAIN allSettings, k \in SettingFields : Le(Zero, allSettings[f][k]))

\* A negative price has just been refused after the consumption had been
\* changed.
C9_Witness ==
    /\ last = Log("handleSettingsChange", "price", "none", FALSE)
    /\ priceInput = <<"-", "1">>
    /\ allSettings["Etanol"].consumption = NumOf(10)

\* C10: each of price, consumption and tank size that the conversions use is
\* the stored value when it is there and not zero and the default of the fuel
\* otherwise, and so is > 0.
C10_SettingsFallBackToDefaults ==
    \A k \in SettingFields :
        /\ currentSettings(Render)[k] =
              IF /\ currentFuel \in DOMAIN allSettings
                 /\ k \in DOMAIN allSettings[currentFuel]
                 /\ allSettings[currentFuel][k] # Zero
              THEN allSettings[currentFuel][k]
              ELSE DEFAULT_SETTINGS[currentFuel][k]
        /\ Gt(currentSettings(Render)[k], Zero)

-----------------------------------------------------------------------------
(* Claims about the record addRefuel builds *)

\* C11: the price per liter stored in a record addRefuel creates is the
\* stored amount divided by the stored volume (to the two decimals stored),
\* and when the amount field and the volume field both hold a positive
\* number the record stores these two numbers, none of them replaced by a
\* value derived from the settings price.
C11_EffectivePriceIsTransactionPrice ==
    [][(last'.op = "addRefuel" /\ last'.arg # "")
       => /\ (Gt(history'[1].liters, Zero) /\ IsFinite(history'[1].liters))
                => history'[1].pricePerLiter
                     = ToFixedNum(Div(history'[1].amountBRL, history'[1].liters), 2)
          /\ (Gt(numeric(amountBRLInput), Zero) /\ Gt(numeric(litersInput), Zero))
                => /\ history'[1].amountBRL = ToFixedNum(numeric(amountBRLInput), 2)
                   /\ history'[1].liters = ToFixedNum(numeric(litersInput), 2)]_vars

\* C12: a record does not change once it is in the history. A step of
\* addRefuel that adds a record puts it in front of the records there were,
\* the completion of an import keeps them in front of what it adds, and
\* every other handler but removeEntry and clearAll, handleSettingsChange
\* and setCurrentFuel among them, leaves the history as it is.
C12_RecordsImmutable ==
    [][(mounted /\ last'.op \notin {"removeEntry", "clearAll"})
       => IF last'.op = "addRefuel" /\ last'.arg # ""
          THEN /\ Len(history') = Len(history) + 1
               /\ Tail(history') = history
          ELSE IF last'.op = "readerOnload"
          THEN /\ Len(history') >= Len(history)
               /\ SubSeq(history', 1, Len(history)) = history
          ELSE history' = history]_vars

\* A record has been added in front of an older record of the same fuel
\* that holds another price per liter.
C12_Witness ==
    /\ last.op = "addRefuel"
    /\ Len(history) = 2
    /\ history[1].fuelType = history[2].fuelType
    /\ history[1].pricePerLiter # history[2].pricePerLiter

C14_ZeroPriceAddsNothing ==
    [][last'.op = "addRefuel"
       => /\ (/\ Gt(numeric(amountBRLInput), Zero)
              /\ ~Gt(numeric(litersInput), Zero)
              /\ Le(currentPrice(Render), Zero))
                => history' = history
          /\ last'.arg # ""
                => /\ IsFinite(history'[1].liters)
                   /\ IsFinite(history'[1].amountBRL)
                   /\ IsFinite(history'[1].pricePerLiter)]_vars

-----------------------------------------------------------------------------
(* Claims about the values derived from the history *)

\* Whether `res` holds the records of `src`, each once, ordered by date
\* (descending or ascending), those of one date in the order `src` has them.
IsStableOrder(res, src, descending) ==
    /\ Len(res) = Len(src)
    /\ \A i \in 1..Len(src) :
         LET t == getTime(src[i].date)
         IN  SelectSeq(res, LAMBDA h : getTime(h.date) = t)
               = SelectSeq(src, LAMBDA h : getTime(h.date) = t)
    /\ \A i, j \in 1..Len(res) :
         i < j => IF descending
                  THEN ~Lt(getTime(res[i].date), getTime(res[j].date))
                  ELSE ~Gt(getTime(res[i].date), getTime(res[j].date))

CountsForAverage(h) ==
    /\ h.fuelType = currentFuel
    /\ IsNumber(h.km) /\ Gt(h.km, Zero)
    /\ IsNumber(h.liters) /\ Gt(h.liters, Zero)

\* The sum of a field over the first i records of the history that count.
RECURSIVE TotalCounted(_, _)
TotalCounted(i, field) ==
    IF i = 0 THEN Zero
    ELSE Add(TotalCounted(i - 1, field),
             IF CountsForAverage(history[i]) THEN history[i][field] ELSE Zero)

\* C16: avgConsumption is the sum of the distances divided by the sum of the
\* volumes over the records of the current fuel with distance > 0 and
\* volume > 0, a divisor that is > 0; with no such record it is the configured
\* consumption; volumes 10 and 20 with distances 100 and 150 give 250/30.
C16_AverageConsumption ==
    /\ IF \E i \in 1..Len(history) : CountsForAverage(history[i])
       THEN /\ Gt(TotalCounted(Len(history), "liters"), Zero)
            /\ avgConsumption(Render) =
                 Div(TotalCounted(Len(history), "km"),
                     TotalCounted(Len(history), "liters"))
       ELSE avgConsumption(Render) = currentConsumption(Render)
    /\ ( /\ Len(history) = 2
         /\ \A i \in 1..2 : history[i].fuelType = currentFuel
         /\ {<<history[i].liters, history[i].km>> : i \in 1..2}
              = {<<NumOf(10), NumOf(100)>>, <<NumOf(20), NumOf(150)>>} )
       => avgConsumption(Render) = Num(250, 30)

\* The history holds the two records of the example, both of the current
\* fuel, and the average is 250/30.
C16_Witness ==
    /\ Len(history) = 2
    /\ \A i \in 1..2 : history[i].fuelType = currentFuel
    /\ history[1].liters = NumOf(10) /\ history[1].km = NumOf(100)
    /\ history[2].liters = NumOf(20) /\ history[2].km = NumOf(150)
    /\ avgConsumption(Render) = Num(25, 3)
    /\ avgConsumption(Render) # currentConsumption(Render)

-----------------------------------------------------------------------------
(* Claims about the values derived from the form *)

\* C17: with a current price > 0, isOverTankLimit is true exactly when the
\* tank size is > 0 and the volume of the form (entered, or derived from the
\* entered amount) is greater than the tank size; with tank size 0 it is
\* false for every volume.
C17_OverTankOnlyWithPositiveTank ==
    Gt(currentPrice(Render), Zero)
      => ( isOverTankLimit(Render)
             <=> /\ Gt(currentTankSize(Render), Zero)
                 /\ Gt(IF Gt(numeric(litersInput), Zero) THEN numeric(litersInput)
                       ELSE Div(numeric(amountBRLInput), currentPrice(Render)),
                       currentTankSize(Render)) )

\* C18: daysOfAutonomy is autonomyFromForm / simCommuteNum when the daily
\* distance parsed from its input field is > 0, and 0 for every daily distance
\* <= 0, negative ones included.
C18_DaysZeroUnlessDailyPositive ==
    daysOfAutonomy(Render) =
        IF Gt(numeric(simulacaoCommuteInput), Zero)
        THEN Div(autonomyFromForm(Render), numeric(simulacaoCommuteInput))
        ELSE Zero

-----------------------------------------------------------------------------
(* Claims about the two linked fields of the form *)

\* The text of the volume field for an amount text and a price.
RecomputedLiters(amountText, price) ==
    IF Gt(numeric(amountText), Zero) /\ Gt(price, Zero)
    THEN fmtNum(Div(numeric(amountText), price), 2) ELSE Empty

\* The text of the amount field for a volume text and a price.
RecomputedAmount(litersText, price) ==
    IF Gt(numeric(litersText), Zero) /\ Gt(price, Zero)
    THEN fmtNum(Mul(numeric(litersText), price), 2) ELSE Empty

\* C19: in a step that leaves activeField at "amount", an edit of the amount
\* field or a change of the current price leaves in the volume field the text
\* recomputed from the amount and the current price (empty when the amount or
\* the price is <= 0), and only the amount's onChange and addRefuel write the
\* amount field; the same with "liters", the two fields exchanged.
C19_LinkedFieldFollowsActiveField ==
    [][mounted
       => /\ activeField' = "amount"
               => /\ (last'.op = "onChangeAmount"
                        \/ currentPrice(Render)' # currentPrice(Render))
                       => litersInput' =
                            RecomputedLiters(amountBRLInput', currentPrice(Render)')
                  /\ last'.op \notin {"onChangeAmount", "addRefuel"}
                       => amountBRLInput' = amountBRLInput
          /\ activeField' = "liters"
               => /\ (last'.op = "onChangeLiters"
                        \/ currentPrice(Render)' # currentPrice(Render))
                       => amountBRLInput' =
                            RecomputedAmount(litersInput', currentPrice(Render)')
                  /\ last'.op \notin {"onChangeLiters", "addRefuel"}
                       => litersInput' = litersInput]_vars

\* With activeField "liters" and a volume typed, the price has been set to a
\* value <= 0 and the amount field has been emptied by the recomputation.
C19_Witness ==
    /\ last.op = "handleSettingsChange"
    /\ last.arg = "price"
    /\ activeField = "liters"
    /\ Gt(numeric(litersInput), Zero)
    /\ Le(currentPrice(Render), Zero)
    /\ amountBRLInput = Empty

\* C20: in the state reached by an addRefuel that added a record,
\* activeField is null, whatever it was before.
C20_ActiveFieldResetByAdd ==
    [][(last'.op = "addRefuel" /\ last'.arg # "") => activeField' = "null"]_vars

-----------------------------------------------------------------------------
(* Claims about export and import *)

\* C21: exportJSON downloads the text of the whole history, the records of
\* every fuel whatever the current fuel is, for every value of the history,
\* and changes neither the history nor the settings nor the form.
C21_ExportWholeHistoryAlways ==
    [][last'.op = "exportJSON"
       => /\ last'.download =
               [kind |-> "json", array |-> TRUE,
                value |-> [i \in 1..Len(history) |-> JsonRefuel(history[i])]]
          /\ UNCHANGED <<history, allSettings, storage, currentFuel, amountBRLInput,
                         litersInput, kmRodadosInput>>]_vars

-----------------------------------------------------------------------------
(* Claims about the load at startup *)

\* C22: nothing but the mount happens before the stored values are loaded;
\* the mount leaves in the history and in the settings, each from its own
\* key, the stored value when the key holds text that parses and the default
\* (empty list, default settings) when the key is absent or its text does not
\* parse, and it leaves every stored value as it was.
C22_StartupLoadsEachKey ==
    [][/\ ~mounted => last'.op = "mount"
       /\ last'.op = "mount"
            => /\ mounted'
               /\ history' = IF storage[STORAGE_KEY_HISTORY].kind = "json"
                             THEN storage[STORAGE_KEY_HISTORY].value ELSE << >>
               /\ allSettings' = IF storage[STORAGE_KEY_SETTINGS].kind = "json"
                                 THEN storage[STORAGE_KEY_SETTINGS].value
                                 ELSE DEFAULT_SETTINGS
               /\ \A key \in {STORAGE_KEY_HISTORY, STORAGE_KEY_SETTINGS} :
                    storage[key].kind = "json" => storage'[key] = storage[key]]_vars

\* The mount has loaded a stored history and stored settings that differ from
\* the defaults, and both keys still hold them.
C22_Witness ==
    /\ last.op = "mount"
    /\ history # << >>
    /\ allSettings # DEFAULT_SETTINGS
    /\ storage[STORAGE_KEY_HISTORY] = StringifyHistory(history)
    /\ storage[STORAGE_KEY_SETTINGS] = StringifySettings(allSettings)

\* The mount after which the session goes on with the defaults: the keys hold
\* text that does not parse.
C22_WitnessUnparsed ==
    /\ last.op = "mount"
    /\ mounted
    /\ storage[STORAGE_KEY_HISTORY] = Malformed
    /\ history = << >>
    /\ allSettings = DEFAULT_SETTINGS

-----------------------------------------------------------------------------
(* Claims about the conversions between numbers and text *)

\* C23: numeric(fmtNum(x, 2)) is x rounded to two decimals, a half rounded
\* up, for every x >= 0 given; it is x itself when x is a multiple of 0.01.
\* (h hundredths are the rounding of n/d when 2hd <= 200n + d < 2hd + 2d.)
C23_FormatParseRoundTrip ==
    (conversion.phase = "done" /\ conversion.from = "number")
      => LET x == conversion.num
             h == Mul(conversion.result, NumOf(100))
         IN  /\ h.d = 1
             /\ 2 * h.n * x.d <= 200 * x.n + x.d
             /\ 200 * x.n + x.d < 2 * h.n * x.d + 2 * x.d
             /\ Mul(x, NumOf(100)).d = 1 => conversion.result = x

\* The round trip of 0.005, which is no multiple of 0.01, has given 0.01.
C23_Witness ==
    /\ conversion.phase = "done"
    /\ conversion.num = Num(5, 1000)
    /\ conversion.text = <<"0", ",", "0", "1">>
    /\ conversion.result = Num(1, 100)

\* Every comma of a text written as a point.
RECURSIVE WithPoints(_)
WithPoints(t) ==
    IF t = << >> THEN << >>
    ELSE <<IF Head(t) = "," THEN "." ELSE Head(t)>> \o WithPoints(Tail(t))

\* Whether a text starts with a number: an optional sign, then a digit, or a
\* separator and a digit.
StartsWithNumber(t) ==
    LET u == IF t # << >> /\ Head(t) \in {"-", "+"} THEN Tail(t) ELSE t
    IN  /\ u # << >>
        /\ \/ Head(u) \in Digits
           \/ Head(u) \in {",", "."} /\ Len(u) >= 2 /\ u[2] \in Digits

\* C24: numeric gives a finite number for every text, 0 for a text that does
\* not start with a number, and for a text written with commas what it gives
\* for the same text written with points.
C24_NumericTotal ==
    conversion.phase = "done"
      => /\ IsFinite(conversion.result)
         /\ ~StartsWithNumber(conversion.text) => conversion.result = Zero
         /\ conversion.result = numeric(WithPoints(conversion.text))

\* numeric has read "12,5" as 12.5.
C24_Witness ==
    /\ conversion.phase = "done"
    /\ conversion.from = "text"
    /\ conversion.text = <<"1", "2", ",", "5">>
    /\ conversion.result = Num(25, 2)
    /\ conversion.result = numeric(<<"1", "2", ".", "5">>)

-----------------------------------------------------------------------------
(* Claims about record ids and about what addRefuel stores *)

\* C25: no two records of the history have the same id.
C25_IdsUnique ==
    \A i, j \in 1..Len(history) : i # j => history[i].id # history[j].id

\* C26: the record an addRefuel adds holds, to two decimals, the amount and
\* the volume that the two linked fields of the form showed when it was
\* invoked.
C26_StoredIsWhatTheFormShowed ==
    [][(last'.op = "addRefuel" /\ last'.arg # "")
       => /\ history'[1].amountBRL = ToFixedNum(numeric(amountBRLInput), 2)
          /\ history'[1].liters = ToFixedNum(numeric(litersInput), 2)]_vars

-----------------------------------------------------------------------------
(* Claims about the inputs of the settings modal *)

\* C27: right after the mount has loaded the stored settings, and right after
\* a change of the current fuel, the text of each input of the settings modal
\* parses to the value the settings hold for that field and the current fuel,
\* so that leaving the input untouched writes back the value it had.
C27_SettingInputsShowSettings ==
    [][(last'.op = "mount" \/ currentFuel' # currentFuel)
       => /\ numeric(priceInput') = allSettings'[currentFuel'].price
          /\ numeric(consumptionInput') = allSettings'[currentFuel'].consumption
          /\ numeric(tankSizeInput') = allSettings'[currentFuel'].tankSize]_vars

-----------------------------------------------------------------------------
(* Claims about export followed by import *)

\* C28: for a history that can be exported, the import of the exported text
\* into an empty history gives the same records with the same field values,
\* and its import into the history it was exported from adds no record.
C28_ExportImportRoundTrip ==
    history # << >>
      => /\ importResult(StringifyHistory(history), << >>, << >>) = history
         /\ importResult(StringifyHistory(history), history, history) = history

====
